---------------------------- MODULE Spec2Model ----------------------------
(***************************************************************************)
(* A model of segmenter.py (SI-PLCA music structure segmentation).         *)
(*                                                                         *)
(* The module holds one state machine per routine of the source:           *)
(*   SpecDriver   segment_song: best-of-nrep selection, the retry loop,    *)
(*                the optional downbeat-alignment run                      *)
(*   SpecMerge    remove_short_segments, applied twice in a row            *)
(*   SpecSegments convert_labels_to_segments                               *)
(*   SpecNmf      nmf_analysis_to_segmentation                             *)
(*   SpecViterbi  nmf_analysis_to_segmentation_using_viterbi_path          *)
(*   SpecCli      _parse_args and _main                                    *)
(* The external engine (plca.SIPLCA.analyze / reconstruct) is a            *)
(* nondeterministic choice over the values it can return.                  *)
(***************************************************************************)
EXTENDS Integers, Sequences, FiniteSets, TLC

(***************************************************************************)
(* Bounds of the model.                                                    *)
(***************************************************************************)
MaxNrep == 2
MaxRetries == 2

(***************************************************************************)
(* State.  Each routine has its own variables; a specification runs one    *)
(* routine and leaves the variables of the others at their idle values.    *)
(***************************************************************************)
\* segment_song
VARIABLES
  d_pc,          \* position in segment_song
  args,          \* the keyword arguments segment_song was called with
  kwargs,        \* **kwargs as passed on to plca.SIPLCA.analyze
  rank,          \* local variable rank (rebound by the alignment stage)
  outputs,       \* the list of this round's decompositions
  decomp,        \* W, Z, H, norm, recon, div of the selected decomposition
  maxlowen,      \* local variable maxlowen (possibly raised)
  nlowen_recon,  \* low-energy frame count of recon
  nretries,      \* retries left
  ncalls,        \* history: engine calls made so far
  gatelog,       \* history: QualityGate of each round's selection
  accepted,      \* history: the decomposition the retry loop ended with
  alignlog       \* history: the engine calls of the alignment stage

driverVars == <<d_pc, args, kwargs, rank, outputs, decomp, maxlowen,
                nlowen_recon, nretries, ncalls, gatelog, accepted, alignlog>>

\* remove_short_segments
VARIABLES
  m_pc,                \* position in remove_short_segments
  labels,              \* the label array, changed in place
  min_segment_length,  \* the threshold
  segment_borders,     \* np.nonzero(np.diff(labels))[0]
  short_segments_idx,  \* indices into segment_borders of the short spans
  m_k,                 \* how many elements of short_segments_idx are done
  m_input,             \* history: labels as first passed in
  m_first,             \* history: labels as the first application left them
  m_fill               \* history: the slice assignment of the last loop pass

mergeVars == <<m_pc, labels, min_segment_length, segment_borders,
               short_segments_idx, m_k, m_input, m_first, m_fill>>

\* convert_labels_to_segments
VARIABLES
  s_pc,       \* position in convert_labels_to_segments
  s_labels,   \* argument labels
  frametimes, \* argument frametimes
  songlen,    \* argument songlen ([given |-> FALSE, ...] is None)
  segments    \* the lines of the returned text

segVars == <<s_pc, s_labels, frametimes, songlen, segments>>

\* nmf_analysis_to_segmentation
VARIABLES
  n_pc,      \* position in nmf_analysis_to_segmentation
  n_in,      \* argument min_segment_length, and what reconstruct returns
  segfun,    \* the list of score curves, later the normalised array
  n_labels,  \* local variable labels
  n_argmax   \* history: labels as np.argmax left them

nmfVars == <<n_pc, n_in, segfun, n_labels, n_argmax>>

\* nmf_analysis_to_segmentation_using_viterbi_path
VARIABLES
  v_pc,       \* position in the function
  v_in,       \* rank, T, selfloopprob, min_segment_length and the likelihoods
  lattice,    \* lattice[state][frame], both 0-based
  traceback,  \* traceback[state][frame]
  v_n,        \* loop variable n of the forward pass
  v_labels,   \* local variable labels
  v_path      \* history: labels as the traceback left them

vitVars == <<v_pc, v_in, lattice, traceback, v_n, v_labels, v_path>>

\* _main and _parse_args
VARIABLES
  c_pc,     \* position in _main
  argv,     \* the argument list _main is given
  parsed,   \* what _parse_args returned
  stdout,   \* what has been printed
  status,   \* the exit status of the process, -1 while it runs
  outfile   \* the output file: "untouched", "open", "written" or "closed"

cliVars == <<c_pc, argv, parsed, stdout, status, outfile>>

vars == <<driverVars, mergeVars, segVars, nmfVars, vitVars, cliVars>>

notDriver == <<mergeVars, segVars, nmfVars, vitVars, cliVars>>

notMerge == <<driverVars, segVars, nmfVars, vitVars, cliVars>>

notSeg == <<driverVars, mergeVars, nmfVars, vitVars, cliVars>>

notNmf == <<driverVars, mergeVars, segVars, vitVars, cliVars>>

notVit == <<driverVars, mergeVars, segVars, nmfVars, cliVars>>

notCli == <<driverVars, mergeVars, segVars, nmfVars, vitVars>>

(***************************************************************************)
(* Idle values: the state of a routine that is not running.                *)
(***************************************************************************)
NoDecomp == [lenZ |-> 0, nlowen |-> 0, div |-> 0, call |-> 0]

DriverIdle ==
  /\ d_pc = "idle"
  /\ args = [rank |-> 0]
  /\ kwargs = <<>>
  /\ rank = 0
  /\ outputs = <<>>
  /\ decomp = NoDecomp
  /\ maxlowen = 0
  /\ nlowen_recon = 0
  /\ nretries = 0
  /\ ncalls = 0
  /\ gatelog = <<>>
  /\ accepted = NoDecomp
  /\ alignlog = <<>>

NoFill == [start |-> 0, end |-> 0, label |-> 0, before |-> <<>>]

MergeIdle ==
  /\ m_pc = "idle"
  /\ labels = <<>>
  /\ min_segment_length = 0
  /\ segment_borders = <<>>
  /\ short_segments_idx = <<>>
  /\ m_k = 0
  /\ m_input = <<>>
  /\ m_first = <<>>
  /\ m_fill = NoFill

None == [given |-> FALSE, value |-> 0]

SegIdle ==
  /\ s_pc = "idle"
  /\ s_labels = <<>>
  /\ frametimes = <<>>
  /\ songlen = None
  /\ segments = <<>>

NmfIdle ==
  /\ n_pc = "idle"
  /\ n_in = [T |-> 0]
  /\ segfun = <<>>
  /\ n_labels = <<>>
  /\ n_argmax = <<>>

VitIdle ==
  /\ v_pc = "idle"
  /\ v_in = [T |-> 0]
  /\ lattice = <<>>
  /\ traceback = <<>>
  /\ v_n = 0
  /\ v_labels = <<>>
  /\ v_path = <<>>

NoParse == [outcome |-> "none", printed |-> <<>>]

CliIdle ==
  /\ c_pc = "idle"
  /\ argv = <<>>
  /\ parsed = NoParse
  /\ stdout = <<>>
  /\ status = -1
  /\ outfile = "untouched"

NotDriverIdle == MergeIdle /\ SegIdle /\ NmfIdle /\ VitIdle /\ CliIdle

NotMergeIdle == DriverIdle /\ SegIdle /\ NmfIdle /\ VitIdle /\ CliIdle

NotSegIdle == DriverIdle /\ MergeIdle /\ NmfIdle /\ VitIdle /\ CliIdle

NotNmfIdle == DriverIdle /\ MergeIdle /\ SegIdle /\ VitIdle /\ CliIdle

NotCliIdle == DriverIdle /\ MergeIdle /\ SegIdle /\ NmfIdle /\ VitIdle

NotVitIdle == DriverIdle /\ MergeIdle /\ SegIdle /\ NmfIdle /\ CliIdle

(***************************************************************************)
(* Generic helpers.                                                        *)
(***************************************************************************)
Max2(a, b) == IF a >= b THEN a ELSE b

Min2(a, b) == IF a <= b THEN a ELSE b

\* A faulty argmin: the last index holding the minimum.
ArgMinLast(s) ==
  CHOOSE i \in 1..Len(s) :
    /\ \A j \in 1..Len(s) : s[i] <= s[j]
    /\ \A j \in (i + 1)..Len(s) : s[j] > s[i]

\* np.argmin over a non-empty sequence of numbers: the first index (1-based
\* here) holding the minimum.
ArgMinFirst(s) ==
  CHOOSE i \in 1..Len(s) :
    /\ \A j \in 1..Len(s) : s[i] <= s[j]
    /\ \A j \in 1..(i - 1) : s[j] > s[i]

(***************************************************************************)
(* segment_song                                                            *)
(***************************************************************************)
\* Sample values of the inputs and of what the engine returns.
RankChoices == {2}
MinSegmentsChoices == {1, 2}
LowenChoices == {0, 1}
DivValues == {0, 1}
AlphaZChoices == {"absent", "given"}

\* What plca.SIPLCA.analyze(seq, rank=r, ...) can return, seen through the
\* quantities segment_song reads: len(Z) (the effective rank, at most the rank
\* asked for), the number of low-energy frames of recon, and the divergence.
\* call numbers the engine run that produced W, Z and H.
AnalyzeResults(r, c) ==
  [lenZ : 1..r, nlowen : LowenChoices, div : DivValues, call : {c}]

\* The quality gate as segment_song's docstring states it (lines 147-157),
\* on the arguments as the caller gave them: at least minsegments segments and
\* no more low-energy frames than maxlowen, or than the input itself has.
QualityGate(d, a) ==
  /\ d.lenZ >= a.minsegments
  /\ d.nlowen <= Max2(a.maxlowen, a.nlowen_seq)

\* A kwargs entry.
Entry(kind, n) == [kind |-> kind, n |-> n]

\* Lines 216-220: the flat initialisations added to kwargs (alphaZ is there
\* when the caller supplied it).
InitialKwargs(a) ==
  [k \in (IF a.uninformativeWinit THEN {"initW"} ELSE {})
         \cup (IF a.uninformativeHinit THEN {"initH"} ELSE {})
         \cup (IF a.alphaZ = "given" THEN {"alphaZ"} ELSE {})
     |-> IF k = "alphaZ" THEN Entry("number", 1) ELSE Entry("ones", a.rank)]

\* The arguments segment_song can be called with, the three keyword inputs of
\* the alignment stage drawn from the given sets.
DriverArgs(Winit, Hinit, AlphaZ) ==
  [rank : RankChoices, nrep : 1..MaxNrep, minsegments : MinSegmentsChoices,
   maxlowen : LowenChoices, maxretries : 0..MaxRetries,
   nlowen_seq : LowenChoices,
   uninformativeWinit : Winit, uninformativeHinit : Hinit,
   align_downbeats : BOOLEAN, alphaZ : AlphaZ]

\* segment_song is entered with some arguments; lines 202-222.
DriverInit(Args) ==
  /\ NotDriverIdle
  /\ d_pc = "attempts"
  /\ args \in Args
  /\ kwargs = InitialKwargs(args)
  /\ rank = args.rank
  /\ outputs = <<>>
  /\ decomp = NoDecomp
  /\ maxlowen = args.maxlowen
  /\ nlowen_recon = 0
  /\ nretries = 0
  /\ ncalls = 0
  /\ gatelog = <<>>
  /\ accepted = NoDecomp
  /\ alignlog = <<>>

\* Lines 223-224 and 241-243: one pass of "for n in xrange(nrep)".
Analyze ==
  /\ UNCHANGED notDriver
  /\ d_pc = "attempts"
  /\ Len(outputs) < args.nrep
  /\ \E x \in AnalyzeResults(rank, ncalls + 1) : outputs' = Append(outputs, x)
  /\ ncalls' = ncalls + 1
  /\ UNCHANGED <<d_pc, args, kwargs, rank, decomp, maxlowen, nlowen_recon,
                 nretries, gatelog, accepted, alignlog>>

\* Lines 225-226 and 244-245: div = [x[-1] for x in outputs];
\* outputs[np.argmin(div)].
SelectBest(outs) == outs[ArgMinFirst([n \in 1..Len(outs) |-> outs[n].div])]

\* A faulty threshold: never raised.
MaxlowenNotRaised(m, nlowen_seq) == m

\* Lines 232-233: the threshold is raised to the input's own count.
RaisedMaxlowen(m, nlowen_seq) == IF nlowen_seq > m THEN nlowen_seq ELSE m

\* A faulty loop condition: the budget is not consulted.
ShouldRetryIgnoringBudget(lenZ, nlow, mlow, minseg, left) ==
  lenZ < minseg \/ nlow > mlow

\* Line 236: the condition of the while loop.
ShouldRetry(lenZ, nlow, mlow, minseg, left) ==
  (lenZ < minseg \/ nlow > mlow) /\ left > 0

\* Lines 225-235: the first round's selection, the threshold, the budget.
SelectFirst ==
  /\ UNCHANGED notDriver
  /\ d_pc = "attempts"
  /\ Len(outputs) = args.nrep
  /\ gatelog = <<>>
  /\ decomp' = SelectBest(outputs)
  /\ maxlowen' = RaisedMaxlowen(maxlowen, args.nlowen_seq)
  /\ nlowen_recon' = decomp'.nlowen
  /\ nretries' = args.maxretries
  /\ gatelog' = <<QualityGate(decomp', args)>>
  /\ d_pc' = "while"
  /\ UNCHANGED <<args, kwargs, rank, outputs, ncalls, accepted, alignlog>>

\* Lines 244-246: a retry round's selection.
SelectRetry ==
  /\ UNCHANGED notDriver
  /\ d_pc = "attempts"
  /\ Len(outputs) = args.nrep
  /\ gatelog # <<>>
  /\ decomp' = SelectBest(outputs)
  /\ nlowen_recon' = decomp'.nlowen
  /\ gatelog' = Append(gatelog, QualityGate(decomp', args))
  /\ d_pc' = "while"
  /\ UNCHANGED <<args, kwargs, rank, outputs, maxlowen, nretries, ncalls,
                 accepted, alignlog>>

\* Lines 236-240: the loop condition holds; a retry round starts.
Retry ==
  /\ UNCHANGED notDriver
  /\ d_pc = "while"
  /\ ShouldRetry(decomp.lenZ, nlowen_recon, maxlowen, args.minsegments, nretries)
  /\ nretries' = nretries - 1
  /\ outputs' = <<>>
  /\ d_pc' = "attempts"
  /\ UNCHANGED <<args, kwargs, rank, decomp, maxlowen, nlowen_recon, ncalls,
                 gatelog, accepted, alignlog>>

\* Line 236 (condition false) and line 248.
LeaveLoop ==
  /\ UNCHANGED notDriver
  /\ d_pc = "while"
  /\ ~ShouldRetry(decomp.lenZ, nlowen_recon, maxlowen, args.minsegments, nretries)
  /\ accepted' = decomp
  /\ d_pc' = IF args.align_downbeats THEN "align" ELSE "segment"
  /\ UNCHANGED <<args, kwargs, rank, outputs, decomp, maxlowen, nlowen_recon,
                 nretries, ncalls, gatelog, alignlog>>

\* Lines 251-255: rank = len(Z); initH rebuilt for it; alphaZ zeroed.
AlignKwargs(kw, newrank, uninformativeHinit) ==
  [k \in DOMAIN kw \cup (IF uninformativeHinit THEN {"initH"} ELSE {}) |->
     IF k = "initH" /\ uninformativeHinit THEN Entry("ones", newrank)
     ELSE IF k = "alphaZ" THEN Entry("number", 0)
     ELSE kw[k]]

\* Line 256-257: analyze(seq, rank=rank, win=win, initW=alignedW, **kwargs) is
\* a call with the keyword initW given twice when kwargs holds initW: Python
\* raises TypeError before the engine runs.
DuplicateKeyword(kw) == "initW" \in DOMAIN kw

\* Lines 248-257: the alignment stage.
AlignRun ==
  /\ UNCHANGED notDriver
  /\ d_pc = "align"
  /\ rank' = decomp.lenZ
  /\ kwargs' = AlignKwargs(kwargs, rank', args.uninformativeHinit)
  /\ IF DuplicateKeyword(kwargs')
       THEN /\ d_pc' = "TypeError"
            /\ UNCHANGED <<decomp, ncalls, alignlog>>
       ELSE /\ \E x \in AnalyzeResults(rank', ncalls + 1) : decomp' = x
            /\ ncalls' = ncalls + 1
            /\ alignlog' = Append(alignlog,
                 [rank |-> rank', initW |-> [kind |-> "alignedW", n |-> decomp.call],
                  kwargs |-> kwargs', call |-> ncalls + 1])
            /\ d_pc' = "segment"
  /\ UNCHANGED <<args, outputs, maxlowen, nlowen_recon, nretries, gatelog, accepted>>

\* Lines 259-265: the segmentation function is applied and segment_song returns.
Segment ==
  /\ UNCHANGED notDriver
  /\ d_pc = "segment"
  /\ d_pc' = "returned"
  /\ UNCHANGED <<args, kwargs, rank, outputs, decomp, maxlowen, nlowen_recon,
                 nretries, ncalls, gatelog, accepted, alignlog>>

DriverNext ==
  \/ Analyze
  \/ SelectFirst
  \/ SelectRetry
  \/ Retry
  \/ LeaveLoop
  \/ AlignRun
  \/ Segment

(***************************************************************************)
(* Python and numpy indexing.  Sequences are 1-based here; the indices     *)
(* the source computes are kept 0-based, as they are in the source.        *)
(***************************************************************************)
\* s[i] does not raise IndexError: a negative index counts from the end.
PyInRange(s, i) == -Len(s) <= i /\ i < Len(s)

\* s[i] for an index in range.
PyGet(s, i) == IF i < 0 THEN s[Len(s) + i + 1] ELSE s[i + 1]

\* s after the slice assignment s[start:end] = v, for 0 <= start.
PySliceFill(s, start, end, v) ==
  [n \in 1..Len(s) |-> IF start <= n - 1 /\ n - 1 < end THEN v ELSE s[n]]

\* np.diff(s)
Diff(s) == [n \in 1..(Len(s) - 1) |-> s[n + 1] - s[n]]

\* np.nonzero(d)[0]: the 0-based positions of the non-zero entries, ascending.
Nonzero(d) == SelectSeq([n \in 1..Len(d) |-> n - 1], LAMBDA i : d[i + 1] # 0)

\* np.nonzero(d < bound)[0]
NonzeroLess(d, bound) ==
  SelectSeq([n \in 1..Len(d) |-> n - 1], LAMBDA i : d[i + 1] < bound)

(***************************************************************************)
(* remove_short_segments                                                   *)
(***************************************************************************)
MaxFrames == 6
MaxMinLen == 3
LabelValues == {0, 1, 2}

LabelArrays == UNION {[1..n -> LabelValues] : n \in 0..MaxFrames}

\* Line 357.
SegmentBorders(lab) == Nonzero(Diff(lab))

\* Lines 358-359.
ShortSegmentsIdx(borders, minlen) == NonzeroLess(Diff(borders), minlen)

\* Line 366.
SpanStart(borders, idx) == PyGet(borders, idx)

\* A faulty end: one frame beyond the frame after the next label change.
SpanEndOvershoot(lab, borders, idx) ==
  IF PyInRange(borders, idx + 1) THEN PyGet(borders, idx + 1) + 2 ELSE Len(lab)

\* Lines 367-370.
SpanEnd(lab, borders, idx) ==
  IF PyInRange(borders, idx + 1) THEN PyGet(borders, idx + 1) + 1 ELSE Len(lab)

\* A faulty lookup: the label after the span, whatever the start.
FillLabelFollowing(lab, start, end) == PyGet(lab, end)

\* Lines 372-375: labels[start - 1], and labels[end] on IndexError.
FillLabel(lab, start, end) ==
  IF PyInRange(lab, start - 1) THEN PyGet(lab, start - 1) ELSE PyGet(lab, end)

\* Lines 366-377: one pass of the loop body, for element idx.
MergeOne(lab, borders, idx) ==
  LET start == SpanStart(borders, idx)
      end == SpanEnd(lab, borders, idx)
  IN  PySliceFill(lab, start, end, FillLabel(lab, start, end))

\* Lines 365-377: the loop from element k + 1 (1-based) of short on.
RECURSIVE MergeFrom(_, _, _, _)
MergeFrom(lab, borders, short, k) ==
  IF k >= Len(short) THEN lab
  ELSE MergeFrom(MergeOne(lab, borders, short[k + 1]), borders, short, k + 1)

\* remove_short_segments(labels, min_segment_length), as a function of labels.
RemoveShortSegments(lab, minlen) ==
  LET borders == SegmentBorders(lab)
  IN  MergeFrom(lab, borders, ShortSegmentsIdx(borders, minlen), 0)

\* remove_short_segments is called on some label array.
MergeInit ==
  /\ NotMergeIdle
  /\ m_pc = "call"
  /\ labels \in LabelArrays
  /\ min_segment_length \in 1..MaxMinLen
  /\ segment_borders = <<>>
  /\ short_segments_idx = <<>>
  /\ m_k = 0
  /\ m_input = labels
  /\ m_first = <<>>
  /\ m_fill = NoFill

\* Lines 357-363.
MergeCall ==
  /\ UNCHANGED notMerge
  /\ m_pc = "call"
  /\ segment_borders' = SegmentBorders(labels)
  /\ short_segments_idx' = ShortSegmentsIdx(segment_borders', min_segment_length)
  /\ m_k' = 0
  /\ m_pc' = "loop"
  /\ UNCHANGED <<labels, min_segment_length, m_input, m_first, m_fill>>

\* Lines 365-377: the loop body for the next element of short_segments_idx.
MergeIter ==
  /\ UNCHANGED notMerge
  /\ m_pc = "loop"
  /\ m_k < Len(short_segments_idx)
  /\ LET idx == short_segments_idx[m_k + 1]
         start == SpanStart(segment_borders, idx)
         end == SpanEnd(labels, segment_borders, idx)
     IN  /\ labels' = MergeOne(labels, segment_borders, idx)
         /\ m_fill' = [start |-> start, end |-> end,
                       label |-> FillLabel(labels, start, end),
                       before |-> labels]
  /\ m_k' = m_k + 1
  /\ UNCHANGED <<m_pc, min_segment_length, segment_borders, short_segments_idx,
                 m_input, m_first>>

\* The loop is over and the first application returns; the caller applies
\* remove_short_segments to the result again.
MergeReturnFirst ==
  /\ UNCHANGED notMerge
  /\ m_pc = "loop"
  /\ m_k = Len(short_segments_idx)
  /\ m_first = <<>>
  /\ m_first' = <<labels>>
  /\ m_pc' = "call"
  /\ UNCHANGED <<labels, min_segment_length, segment_borders,
                 short_segments_idx, m_k, m_input, m_fill>>

\* The second application returns.
MergeReturnSecond ==
  /\ UNCHANGED notMerge
  /\ m_pc = "loop"
  /\ m_k = Len(short_segments_idx)
  /\ m_first # <<>>
  /\ m_pc' = "returned"
  /\ UNCHANGED <<labels, min_segment_length, segment_borders,
                 short_segments_idx, m_k, m_input, m_first, m_fill>>

MergeNext ==
  \/ MergeCall
  \/ MergeIter
  \/ MergeReturnFirst
  \/ MergeReturnSecond

(***************************************************************************)
(* convert_labels_to_segments                                              *)
(*                                                                         *)
(* Times are whole numbers of ticks, TicksPerDigit ticks making up 0.0001  *)
(* (the last digit that '%.4f' prints); a printed time is a whole number   *)
(* of such digits.                                                         *)
(***************************************************************************)
MaxSegFrames == 3
MaxTick == 5
TicksPerDigit == 3
AlphabetLen == 26
SegLabelValues == {0, 24, 25}

\* '%.4f' % t: t rounded to the nearest 0.0001, a tie going to the even digit.
Fmt4(t) ==
  LET q == t \div TicksPerDigit
      r == t % TicksPerDigit
  IN  IF 2 * r < TicksPerDigit THEN q
      ELSE IF 2 * r > TicksPerDigit THEN q + 1
      ELSE IF q % 2 = 0 THEN q ELSE q + 1

\* The literal '0.0' that starts the first line.
ZeroLiteral == 0

\* 'if songlen:': None and 0 both count as false.
PyTruthy(x) == x.given /\ x.value # 0

\* Lines 425-426.
BoundaryIdx(lab) == <<0>> \o SegmentBorders(lab) \o <<Len(lab) - 1>>

\* Line 427 and line 431: a[idx] for an array of indices.
Take(a, idx) == [n \in 1..Len(idx) |-> PyGet(a, idx[n])]

\* Lines 429-430: a[:-1] and a[1:].
AllButLast(a) == SubSeq(a, 1, Len(a) - 1)

\* A faulty a[1:]: the same slice as a[:-1].
AllButFirstMisaligned(a) == SubSeq(a, 1, Len(a) - 1)

AllButFirst(a) == SubSeq(a, 2, Len(a))

\* seglabels.max()
MaxOf(a) == CHOOSE x \in {a[n] : n \in 1..Len(a)} : \A n \in 1..Len(a) : a[n] <= x

\* Lines 433-438: some index into the 26 letters raises IndexError.
LetterRaises(seglabels) ==
  \/ \E n \in 1..Len(seglabels) :
       seglabels[n] >= AlphabetLen \/ seglabels[n] < -AlphabetLen
  \/ MaxOf(seglabels) + 1 >= AlphabetLen
  \/ MaxOf(seglabels) + 1 < -AlphabetLen

\* labels[label] for the string of 26 letters: the letter's position, 0 for A.
Letter(label) == IF label < 0 THEN label + AlphabetLen ELSE label

Line(start, end, letter) == [start |-> start, end |-> end, letter |-> letter]

\* Lines 425-443: the lines of the text returned.
ConvertLabelsToSegments(lab, times, slen) ==
  LET boundaryidx == BoundaryIdx(lab)
      boundarytimes == Take(times, boundaryidx)
      segstarttimes == AllButLast(boundarytimes)
      segendtimes == AllButFirst(boundarytimes)
      seglabels == Take(lab, AllButFirst(boundaryidx))
      body == [n \in 1..Len(seglabels) |->
                 Line(Fmt4(segstarttimes[n]), Fmt4(segendtimes[n]),
                      Letter(seglabels[n]))]
      silencelabel == Letter(MaxOf(seglabels) + 1)
      leading == <<Line(ZeroLiteral, Fmt4(segstarttimes[1]), silencelabel)>>
      trailing ==
        IF PyTruthy(slen)
          THEN <<Line(Fmt4(segendtimes[Len(segendtimes)]), Fmt4(slen.value),
                      silencelabel)>>
          ELSE <<>>
  IN  leading \o body \o trailing

\* Strictly increasing frame times.
FrameTimes(n) ==
  {f \in [1..n -> 0..MaxTick] : \A i \in 1..n : \A j \in 1..n : i < j => f[i] < f[j]}

SonglenChoices == {None} \cup [given : {TRUE}, value : 0..(MaxTick + 2)]

\* convert_labels_to_segments is called on a non-empty label array and as
\* many frame times.
SegInit ==
  /\ NotSegIdle
  /\ s_pc = "call"
  /\ \E n \in 1..MaxSegFrames :
       /\ s_labels \in [1..n -> SegLabelValues]
       /\ frametimes \in FrameTimes(n)
  /\ songlen \in SonglenChoices
  /\ segments = <<>>

\* Lines 425-443, when no letter lookup raises.
Convert ==
  /\ UNCHANGED notSeg
  /\ s_pc = "call"
  /\ ~LetterRaises(Take(s_labels, AllButFirst(BoundaryIdx(s_labels))))
  /\ segments' = ConvertLabelsToSegments(s_labels, frametimes, songlen)
  /\ s_pc' = "returned"
  /\ UNCHANGED <<s_labels, frametimes, songlen>>

\* Lines 433-438, when a letter lookup raises IndexError.
ConvertRaises ==
  /\ UNCHANGED notSeg
  /\ s_pc = "call"
  /\ LetterRaises(Take(s_labels, AllButFirst(BoundaryIdx(s_labels))))
  /\ s_pc' = "IndexError"
  /\ UNCHANGED <<s_labels, frametimes, songlen, segments>>

SegNext ==
  \/ Convert
  \/ ConvertRaises

(***************************************************************************)
(* nmf_analysis_to_segmentation                                            *)
(***************************************************************************)
MaxPatterns == 2
MaxNmfFrames == 3
MaxSmooth == 4
ScoreValues == {0, 1, 2}

\* sum of f over the set S of integers
RECURSIVE SumOver(_, _)
SumOver(S, f) ==
  IF S = {} THEN 0
  ELSE LET x == CHOOSE y \in S : TRUE IN f[x] + SumOver(S \ {x}, f)

\* np.convolve(a, np.ones(m), 'full')[k], k 0-based: the sum of the a[i],
\* 0 <= i < len(a), with 0 <= k - i < m.
ConvolveOnesFull(a, m, k) ==
  SumOver({i \in 0..(Len(a) - 1) : 0 <= k - i /\ k - i < m},
          [i \in 0..(Len(a) - 1) |-> a[i + 1]])

\* np.convolve(a, np.ones(m), 'same'): numpy takes the longer of the two
\* arrays as the signal, so the result has max(len(a), m) entries: those of the
\* full convolution from offset (min(len(a), m) - 1) // 2 on.
ConvolveOnesSame(a, m) ==
  LET n1 == Max2(Len(a), m)
      n2 == Min2(Len(a), m)
      offset == (n2 - 1) \div 2
  IN  [n \in 1..n1 |-> ConvolveOnesFull(a, m, n - 1 + offset)]

\* segfun.max() of the two-dimensional array.
ArrayMax(a) ==
  CHOOSE x \in {a[k][n] : k \in 1..Len(a), n \in 1..Len(a[1])} :
    \A k \in 1..Len(a) : \A n \in 1..Len(a[1]) : a[k][n] <= x

\* Line 306: segfun /= segfun.max().  A quotient is kept as the pair
\* <<numerator, denominator>>; the denominator 0 gives 0/0, a NaN.
Normalized(a) ==
  LET top == ArrayMax(a)
  IN  [k \in 1..Len(a) |-> [n \in 1..Len(a[1]) |-> <<a[k][n], top>>]]

\* x < y for two quotients of the same non-negative denominator; nothing is
\* below a NaN and a NaN is below nothing.
QuotientLess(x, y) == x[2] > 0 /\ x[1] < y[1]

\* Line 308: np.argmax(segfun, 0), a 0-based pattern index per column: the
\* first row holding the column's maximum (a NaN counts as the maximum).
ArgMaxColumns(a) ==
  [n \in 1..Len(a[1]) |->
     (CHOOSE k \in 1..Len(a) :
        /\ \A j \in 1..Len(a) : ~QuotientLess(a[k][n], a[j][n])
        /\ \A j \in 1..(k - 1) : QuotientLess(a[j][n], a[k][n])) - 1]

\* nmf_analysis_to_segmentation is called: on len(Z) = K patterns and T
\* frames, reconstruct(w, z, h) summed over the features gives one
\* non-negative score per pattern and frame.
NmfInit ==
  /\ NotNmfIdle
  /\ n_pc = "call"
  /\ \E K \in 1..MaxPatterns : \E T \in 1..MaxNmfFrames :
       n_in \in [K : {K}, T : {T}, min_segment_length : 1..MaxSmooth,
                 score : [1..K -> [1..T -> ScoreValues]]]
  /\ segfun = <<>>
  /\ n_labels = <<>>
  /\ n_argmax = <<>>

\* Lines 287-298: the smoothed score curve of every pattern.
NmfSmooth ==
  /\ UNCHANGED notNmf
  /\ n_pc = "call"
  /\ segfun' = [k \in 1..n_in.K |->
                  ConvolveOnesSame(n_in.score[k], n_in.min_segment_length)]
  /\ n_pc' = "smoothed"
  /\ UNCHANGED <<n_in, n_labels, n_argmax>>

\* Lines 300-308: normalisation and the per-column argmax (the correlation
\* matrix C of lines 301-303 is computed and not used).
NmfArgmax ==
  /\ UNCHANGED notNmf
  /\ n_pc = "smoothed"
  /\ segfun' = Normalized(segfun)
  /\ n_labels' = ArgMaxColumns(segfun')
  /\ n_argmax' = n_labels'
  /\ n_pc' = "labelled"
  /\ UNCHANGED n_in

\* Lines 309-311: remove_short_segments(labels, min_segment_length); return.
NmfMerge ==
  /\ UNCHANGED notNmf
  /\ n_pc = "labelled"
  /\ n_labels' = RemoveShortSegments(n_labels, n_in.min_segment_length)
  /\ n_pc' = "returned"
  /\ UNCHANGED <<n_in, segfun, n_argmax>>

NmfNext ==
  \/ NmfSmooth
  \/ NmfArgmax
  \/ NmfMerge

(***************************************************************************)
(* nmf_analysis_to_segmentation_using_viterbi_path                         *)
(*                                                                         *)
(* Logarithms are whole numbers of tenths (10 ln x, rounded); NegInf is    *)
(* np.log(0).                                                              *)
(***************************************************************************)
MaxVitRank == 2
MaxVitFrames == 3
NegInf == -1000000
LogLikelihoodValues == {NegInf, -30, -7, 0}
SelfloopPercents == {90, 50, 10, 100}
VitMinSegmentLengths == {2}

\* np.log(num / den), in tenths, for the quotients the transition matrix holds.
LogTenths(num, den) ==
  CASE num = 0 -> NegInf
    [] num = den -> 0
    [] 10 * num = 9 * den -> -1
    [] 2 * num = den -> -7
    [] 20 * num = 9 * den -> -8
    [] 10 * num = 3 * den -> -12
    [] 4 * num = den -> -14
    [] 6 * num = den -> -18
    [] 10 * num = den -> -23
    [] 20 * num = den -> -30
    [] 30 * num = den -> -34

\* Floating-point addition of logarithms: -inf absorbs.
LogPlus(a, b) == IF a = NegInf \/ b = NegInf THEN NegInf ELSE a + b

\* Lines 327-334: np.log(transmat)[from][to].  transmat[z, :] is
\* (1 - selfloopprob) / (rank - 1 + eps) and transmat[z, z] is selfloopprob.
LogTransmat(percent, rk, from, to) ==
  IF from = to THEN LogTenths(percent, 100)
  ELSE LogTenths(100 - percent, 100 * (rk - 1))

States(rk) == 0..(rk - 1)

\* The first state (lowest index) at which f is greatest: np.argmax.
ArgMaxState(f, rk) ==
  CHOOSE i \in States(rk) :
    /\ \A j \in States(rk) : f[i] >= f[j]
    /\ \A j \in States(rk) : j < i => f[j] < f[i]

\* Line 339: pr = logtransmat.T + lattice[:, n - 1], so that
\* pr[i][j] = logtransmat[j][i] + lattice[j][n - 1].
Pr(inp, lat, n) ==
  [i \in States(inp.rank) |-> [j \in States(inp.rank) |->
     LogPlus(LogTransmat(inp.selfloop, inp.rank, j, i), lat[j][n - 1])]]

\* Line 345: s = lattice[:, -1].argmax()
FinalBestState(lat, inp) ==
  ArgMaxState([i \in States(inp.rank) |-> lat[i][inp.T - 1]], inp.rank)

\* Lines 346-348: the loop over reversed(traceback.T), from frame n down:
\* the states appended, in the order they are appended.
RECURSIVE ReverseStateSequence(_, _, _)
ReverseStateSequence(tb, st, n) ==
  IF n < 0 THEN <<>>
  ELSE <<st>> \o ReverseStateSequence(tb, tb[st][n], n - 1)

\* list(reversed(s))
Reversed(q) == [n \in 1..Len(q) |-> q[Len(q) + 1 - n]]

\* The function is called: len(Z) = rank patterns, H.shape[1] = T frames, and
\* np.log of the likelihood of every pattern at every frame.
VitInit ==
  /\ NotVitIdle
  /\ v_pc = "call"
  /\ \E rk \in 1..MaxVitRank : \E T \in 1..MaxVitFrames :
       v_in \in [rank : {rk}, T : {T}, selfloop : SelfloopPercents,
                 min_segment_length : VitMinSegmentLengths,
                 loglikelihood : [States(rk) -> [0..(T - 1) -> LogLikelihoodValues]]]
  /\ lattice = <<>>
  /\ traceback = <<>>
  /\ v_n = 0
  /\ v_labels = <<>>
  /\ v_path = <<>>

\* Lines 321-337: the arrays are set up.  lattice has the shape (rank, T) of
\* loglikelihood, and line 337, lattice[0] = loglikelihood[0], copies the row
\* of state 0 (all its frames); the rows of the other states stay zero.
VitSetup ==
  /\ UNCHANGED notVit
  /\ v_pc = "call"
  /\ lattice' = [i \in States(v_in.rank) |-> [n \in 0..(v_in.T - 1) |->
                   IF i = 0 THEN v_in.loglikelihood[0][n] ELSE 0]]
  /\ traceback' = [i \in States(v_in.rank) |-> [n \in 0..(v_in.T - 1) |-> 0]]
  /\ v_n' = 1
  /\ v_pc' = "forward"
  /\ UNCHANGED <<v_in, v_labels, v_path>>

\* Lines 338-341: one pass of "for n in xrange(1, T)".
VitForward ==
  /\ UNCHANGED notVit
  /\ v_pc = "forward"
  /\ v_n < v_in.T
  /\ LET pr == Pr(v_in, lattice, v_n)
     IN  /\ lattice' = [i \in States(v_in.rank) |->
                          [lattice[i] EXCEPT ![v_n] =
                             LogPlus(pr[i][ArgMaxState(pr[i], v_in.rank)],
                                     v_in.loglikelihood[i][v_n])]]
         /\ traceback' = [i \in States(v_in.rank) |->
                            [traceback[i] EXCEPT ![v_n] = ArgMaxState(pr[i], v_in.rank)]]
  /\ v_n' = v_n + 1
  /\ UNCHANGED <<v_pc, v_in, v_labels, v_path>>

\* Lines 344-349: the traceback.
VitTraceback ==
  /\ UNCHANGED notVit
  /\ v_pc = "forward"
  /\ v_n >= v_in.T
  /\ v_labels' = Reversed(ReverseStateSequence(traceback,
                            FinalBestState(lattice, v_in), v_in.T - 1))
  /\ v_path' = v_labels'
  /\ v_pc' = "decoded"
  /\ UNCHANGED <<v_in, lattice, traceback, v_n>>

\* Lines 351-353: remove_short_segments(labels, min_segment_length); return.
VitMerge ==
  /\ UNCHANGED notVit
  /\ v_pc = "decoded"
  /\ v_labels' = RemoveShortSegments(v_labels, v_in.min_segment_length)
  /\ v_pc' = "returned"
  /\ UNCHANGED <<v_in, lattice, traceback, v_n, v_path>>

VitNext ==
  \/ VitSetup
  \/ VitForward
  \/ VitTraceback
  \/ VitMerge

(***************************************************************************)
(* _parse_args and _main                                                   *)
(***************************************************************************)
MaxArgs == 4

\* Command-line words: three keys that start with '-', a number, a name.
ArgTokens == {"-i", "-I", "-o", "-rank", "4", "x.wav"}

\* key.startswith('-')
StartsWithDash(tok) == tok \in {"-i", "-I", "-o", "-rank"}

\* key.lower()
Lower(tok) == IF tok = "-I" THEN "-i" ELSE tok

\* eval(value) returns a value: of the words above only the number does; the
\* others are names that are not defined, or not expressions.
Evaluates(tok) == tok = "4"

\* Lines 512-521: the loop over the (key, value) pairs from pair k on, with
\* the names bound so far.  It ends in "usage" (the error line is printed and
\* _die_with_usage is called), in an exception raised by eval, or at the end
\* of the list.
RECURSIVE ParsePairs(_, _, _)
ParsePairs(a, k, bound) ==
  IF 2 * k > Len(a) THEN [outcome |-> "end", bound |-> bound]
  ELSE LET key == a[2 * k - 1]
           value == a[2 * k]
       IN  IF ~StartsWithDash(key)
             THEN [outcome |-> "usage", bound |-> bound]
           ELSE IF Lower(key) = "-i"
             THEN ParsePairs(a, k + 1, bound \cup {"inputfilename"})
           ELSE IF Lower(key) = "-o"
             THEN ParsePairs(a, k + 1, bound \cup {"outputfilename"})
           ELSE IF Evaluates(value)
             THEN ParsePairs(a, k + 1, bound)
           ELSE [outcome |-> "NameError", bound |-> bound]

\* Lines 507-523: _parse_args.  The return statement reads inputfilename and
\* outputfilename; a name that no pair bound raises UnboundLocalError.
ParseArgs(a) ==
  IF Len(a) < 4 \/ Len(a) % 2 = 1
    THEN [outcome |-> "usage", printed |-> <<"usage">>]
  ELSE LET r == ParsePairs(a, 1, {})
       IN  IF r.outcome = "usage"
             THEN [outcome |-> "usage",
                   printed |-> <<"Error parsing argument", "usage">>]
           ELSE IF r.outcome # "end"
             THEN [outcome |-> r.outcome, printed |-> <<>>]
           ELSE IF {"inputfilename", "outputfilename"} \subseteq r.bound
             THEN [outcome |-> "returned", printed |-> <<>>]
           ELSE [outcome |-> "UnboundLocalError", printed |-> <<>>]

\* segmenter.py is run with some arguments.
CliInit ==
  /\ NotCliIdle
  /\ c_pc = "main"
  /\ argv \in UNION {[1..n -> ArgTokens] : n \in 0..MaxArgs}
  /\ parsed = NoParse
  /\ stdout = <<>>
  /\ status = -1
  /\ outfile = "untouched"

\* Line 538 with lines 507-523: the arguments parse.
ParseReturns ==
  /\ UNCHANGED notCli
  /\ c_pc = "main"
  /\ ParseArgs(argv).outcome = "returned"
  /\ parsed' = ParseArgs(argv)
  /\ c_pc' = "segment_wavfile"
  /\ UNCHANGED <<argv, stdout, status, outfile>>

\* Lines 509, 515 and 525-535: _die_with_usage prints the usage and exits
\* with status 1.
ParseDiesWithUsage ==
  /\ UNCHANGED notCli
  /\ c_pc = "main"
  /\ ParseArgs(argv).outcome = "usage"
  /\ parsed' = ParseArgs(argv)
  /\ stdout' = stdout \o ParseArgs(argv).printed
  /\ status' = 1
  /\ c_pc' = "exited"
  /\ UNCHANGED <<argv, outfile>>

\* Lines 521 and 523: an exception leaves _parse_args and _main; the
\* interpreter prints a traceback on stderr and exits with status 1.
ParseRaises ==
  /\ UNCHANGED notCli
  /\ c_pc = "main"
  /\ ParseArgs(argv).outcome \in {"NameError", "UnboundLocalError"}
  /\ parsed' = ParseArgs(argv)
  /\ status' = 1
  /\ c_pc' = "exited"
  /\ UNCHANGED <<argv, stdout, outfile>>

\* Line 539: segment_wavfile returns the text.
SegmentWavfileReturns ==
  /\ UNCHANGED notCli
  /\ c_pc = "segment_wavfile"
  /\ c_pc' = "open"
  /\ UNCHANGED <<argv, parsed, stdout, status, outfile>>

\* Line 539: segment_wavfile raises (no such file, the engine fails).
SegmentWavfileRaises ==
  /\ UNCHANGED notCli
  /\ c_pc = "segment_wavfile"
  /\ status' = 1
  /\ c_pc' = "exited"
  /\ UNCHANGED <<argv, parsed, stdout, outfile>>

\* Line 540.
OpenOutput ==
  /\ UNCHANGED notCli
  /\ c_pc = "open"
  /\ outfile' = "open"
  /\ c_pc' = "write"
  /\ UNCHANGED <<argv, parsed, stdout, status>>

\* Line 541.
WriteOutput ==
  /\ UNCHANGED notCli
  /\ c_pc = "write"
  /\ outfile' = "written"
  /\ c_pc' = "close"
  /\ UNCHANGED <<argv, parsed, stdout, status>>

\* Line 542, and the end of the script.
CloseOutput ==
  /\ UNCHANGED notCli
  /\ c_pc = "close"
  /\ outfile' = "closed"
  /\ status' = 0
  /\ c_pc' = "exited"
  /\ UNCHANGED <<argv, parsed, stdout>>

CliNext ==
  \/ ParseReturns
  \/ ParseDiesWithUsage
  \/ ParseRaises
  \/ SegmentWavfileReturns
  \/ SegmentWavfileRaises
  \/ OpenOutput
  \/ WriteOutput
  \/ CloseOutput

(***************************************************************************)
(* Specifications                                                          *)
(***************************************************************************)
\* segment_song with the signature's defaults for uninformativeWinit and
\* uninformativeHinit and no alphaZ option.
SpecDriver ==
  DriverInit(DriverArgs({FALSE}, {TRUE}, {"absent"})) /\ [][DriverNext]_vars

\* remove_short_segments applied to a label array, then to its own result.
SpecMerge == MergeInit /\ [][MergeNext]_vars

\* convert_labels_to_segments on a label array and its frame times.
SpecSegments == SegInit /\ [][SegNext]_vars

\* nmf_analysis_to_segmentation on the scores of K patterns over T frames.
SpecNmf == NmfInit /\ [][NmfNext]_vars

\* The Viterbi segmentation on the log-likelihoods of rank patterns over T
\* frames.
SpecViterbi == VitInit /\ [][VitNext]_vars

\* segmenter.py run from the command line.
SpecCli == CliInit /\ [][CliNext]_vars

\* segment_song with every combination of the flags and of alphaZ.
SpecAlign ==
  DriverInit(DriverArgs(BOOLEAN, BOOLEAN, AlphaZChoices)) /\ [][DriverNext]_vars


(***************************************************************************)
(* Properties of segment_song                                              *)
(***************************************************************************)
\* The retry loop has been left.
AfterLoop == d_pc \in {"align", "segment", "returned", "TypeError"}

\* Retry rounds begun so far: every round but the first.
RetryRounds ==
  IF d_pc = "attempts" THEN Len(gatelog)
  ELSE IF gatelog = <<>> THEN 0 ELSE Len(gatelog) - 1

\* d is the attempt of least divergence among outs, the lowest index winning ties.
IsBestOf(d, outs) ==
  \E i \in 1..Len(outs) :
    /\ outs[i] = d
    /\ \A j \in 1..Len(outs) : outs[j].div >= d.div
    /\ \A j \in 1..(i - 1) : outs[j].div > d.div

\* outs are exactly the attempts of the round that ended with engine call c.
IsRoundEndingAt(outs, c) ==
  /\ Len(outs) = args.nrep
  /\ \A n \in 1..Len(outs) : outs[n].call = c - args.nrep + n

\* C1: when the retry phase ends, the accepted decomposition passes the
\* quality gate (len(Z) >= minsegments and low-energy frames of the
\* reconstruction <= max(maxlowen, low-energy frames of the input)) or exactly
\* maxretries retry rounds were performed; a retry round is begun only after
\* a round whose selection failed the gate; never more than maxretries retry
\* rounds are begun.
RetryPhaseContract ==
  /\ RetryRounds <= args.maxretries
  /\ \A k \in 1..RetryRounds : gatelog[k] = FALSE
  /\ AfterLoop =>
       /\ gatelog[Len(gatelog)] = QualityGate(accepted, args)
       /\ QualityGate(accepted, args) \/ RetryRounds = args.maxretries

\* C1 witness: one retry round was needed, and its selection passes only
\* because the input's own low-energy count raised the threshold.
RetryPhaseWitness ==
  /\ d_pc = "segment"
  /\ args.maxretries = 2
  /\ gatelog = <<FALSE, TRUE>>
  /\ args.nlowen_seq > args.maxlowen
  /\ accepted.nlowen > args.maxlowen

\* C2: in every round the selected decomposition is the attempt of minimum
\* divergence among that round's nrep attempts, the lowest index winning ties;
\* what the later stages receive is the selection of the last round.
BestOfRoundSelected ==
  /\ d_pc = "while" =>
       /\ IsRoundEndingAt(outputs, ncalls)
       /\ IsBestOf(decomp, outputs)
  /\ AfterLoop =>
       /\ IsRoundEndingAt(outputs, args.nrep * Len(gatelog))
       /\ IsBestOf(accepted, outputs)
       /\ alignlog = <<>> => decomp = accepted
       /\ alignlog # <<>> =>
            /\ alignlog[1].initW.n = accepted.call
            /\ alignlog[1].rank = accepted.lenZ

\* C2 witness: a retry round of two attempts of equal divergence has been
\* decided, for the first of them.
BestOfRoundWitness ==
  /\ d_pc = "while"
  /\ Len(gatelog) = 2
  /\ args.nrep = 2
  /\ outputs[1].div = outputs[2].div
  /\ outputs[1].lenZ # outputs[2].lenZ
  /\ decomp = outputs[1]

\* Steps the decomposition phase can still take: a natural number that every
\* step of the phase lowers.
PhaseMeasure ==
  LET left == IF gatelog = <<>> THEN args.maxretries ELSE nretries
  IN  CASE d_pc = "attempts" ->
             left * (args.nrep + 2) + (args.nrep - Len(outputs)) + 2
        [] d_pc = "while" -> left * (args.nrep + 2) + 1
        [] OTHER -> 0

\* C3: whatever the engine returns, the decomposition phase ends after at most
\* 1 + maxretries rounds of nrep engine calls each (its steps lower a natural
\* number, and it is never stuck before the loop is left), and a gate failure
\* that outlasts the budget leaves the loop with a decomposition, not an error.
DecompositionTerminates ==
  /\ [](/\ PhaseMeasure >= 0
        /\ Len(gatelog) <= 1 + args.maxretries
        /\ ~AfterLoop =>
             /\ ncalls <= (1 + args.maxretries) * args.nrep
             /\ ENABLED (Analyze \/ SelectFirst \/ SelectRetry \/ Retry \/ LeaveLoop)
        /\ AfterLoop =>
             /\ accepted.call \in 1..((1 + args.maxretries) * args.nrep)
             /\ accepted.lenZ >= 1
             /\ Len(alignlog) = ncalls - args.nrep * Len(gatelog))
  /\ [][~AfterLoop => PhaseMeasure' < PhaseMeasure]_driverVars

\* C3 witness: the budget of two retries is spent on rounds of two attempts
\* and the last selection still fails the gate; the loop is left with it.
DecompositionTerminatesWitness ==
  /\ d_pc = "segment"
  /\ args.maxretries = 2
  /\ args.nrep = 2
  /\ gatelog = <<FALSE, FALSE, FALSE>>
  /\ ncalls = 6
  /\ accepted = decomp

(***************************************************************************)
(* Properties of remove_short_segments                                     *)
(***************************************************************************)
\* C5: remove_short_segments is idempotent: applied with the same
\* min_segment_length to its own result, it leaves that result unchanged.
MergeIdempotent ==
  m_pc = "returned" =>
    /\ labels = m_first[1]
    /\ RemoveShortSegments(m_first[1], min_segment_length) = m_first[1]
    /\ RemoveShortSegments(m_input, min_segment_length) = m_first[1]

\* C5 witness: the first application filled a span in the middle of the
\* array, the result still has several segments, and the second application
\* has returned.
MergeIdempotentWitness ==
  /\ m_pc = "returned"
  /\ m_first[1] # m_input
  /\ m_fill.start > 0
  /\ Len(segment_borders) >= 2

\* C9: a short span is filled with the label of the frame just before it, and
\* with the label of the frame just after it when it starts at frame 0; no
\* other position supplies the label.
ShortSpanFillRule ==
  m_fill.before # <<>> =>
    m_fill.label = IF m_fill.start = 0
                     THEN PyGet(m_fill.before, m_fill.end)
                     ELSE PyGet(m_fill.before, m_fill.start - 1)

\* The label-change positions of the input of the first application, 0-based:
\* position i is a change when frames i and i + 1 differ.
InputChanges == {i \in 0..(Len(m_input) - 2) : m_input[i + 1] # m_input[i + 2]}

FirstChange == CHOOSE i \in InputChanges : \A j \in InputChanges : i <= j

LastChange == CHOOSE i \in InputChanges : \A j \in InputChanges : j <= i

\* The frame of 0-based index i has the label it had in the input.
Kept(i) == m_first[1][i + 1] = m_input[i + 1]

\* What the frame effect says of every input: the length is kept, no label
\* appears that the input does not hold, and with fewer than two label
\* changes nothing changes.
FrameEffectCommon ==
  /\ Len(m_first[1]) = Len(m_input)
  /\ {m_first[1][n] : n \in 1..Len(m_first[1])} \subseteq
       {m_input[n] : n \in 1..Len(m_input)}
  /\ Cardinality(InputChanges) < 2 => m_first[1] = m_input

\* C11 as stated: remove_short_segments changes only frames between the first
\* and the last label change of its input: the frames before the first change
\* (the whole first run) and the frames after the last change (the whole final
\* run) keep their labels, a sequence with fewer than two changes is returned
\* as it is, the length is kept and no new label value appears.
FrameEffectAsStated ==
  m_first # <<>> =>
    /\ FrameEffectCommon
    /\ InputChanges # {} =>
         /\ \A i \in 0..FirstChange : Kept(i)
         /\ \A i \in (LastChange + 1)..(Len(m_input) - 1) : Kept(i)

\* C11 amended: the frames of index below the first label-change position
\* and the frames after the last one keep their labels, and so does a first
\* run of two frames or more; the frame at the first label-change position
\* may change only when that position is 0 (a first run of one frame) and
\* the second change is fewer than min_segment_length positions later.  A
\* sequence with fewer than two changes is returned as it is, the length is
\* kept and no new label value appears.
FrameEffect ==
  m_first # <<>> =>
    /\ FrameEffectCommon
    /\ InputChanges # {} =>
         /\ \A i \in 0..(FirstChange - 1) : Kept(i)
         /\ \A i \in (LastChange + 1)..(Len(m_input) - 1) : Kept(i)
         /\ FirstChange >= 1 => Kept(FirstChange)
         /\ ~Kept(FirstChange) =>
              \E j \in InputChanges :
                j > 0 /\ j < min_segment_length

\* C11 witness: the first application changed a frame in the middle of an
\* input whose first run (two frames or more) and final run are both shorter
\* than min_segment_length, and both runs are as they were.
FrameEffectWitness ==
  /\ m_first # <<>>
  /\ m_first[1] # m_input
  /\ InputChanges # {}
  /\ FirstChange >= 1
  /\ FirstChange + 1 < min_segment_length
  /\ Len(m_input) - 1 - LastChange < min_segment_length
  /\ \A i \in 0..FirstChange : Kept(i)
  /\ \A i \in (LastChange + 1)..(Len(m_input) - 1) : Kept(i)

(***************************************************************************)
(* Properties of the alignment stage of segment_song                       *)
(***************************************************************************)
\* segment_song is over: it returned, or raised.
DriverOver == d_pc \in {"returned", "TypeError"}

\* C10: with align_downbeats, whatever uninformativeWinit and
\* uninformativeHinit are, exactly one more engine run is made, after the
\* retry loop, from the aligned bases, with rank = len(Z) of the accepted
\* decomposition and alphaZ = 0 when alphaZ was supplied; its result replaces
\* the decomposition with no gate and no retry.  Without align_downbeats
\* there is no such run.
AlignmentRunContract ==
  DriverOver =>
    IF args.align_downbeats
      THEN /\ Len(alignlog) = 1
           /\ alignlog[1].call = args.nrep * Len(gatelog) + 1
           /\ alignlog[1].initW = [kind |-> "alignedW", n |-> accepted.call]
           /\ alignlog[1].rank = accepted.lenZ
           /\ args.alphaZ = "given" => alignlog[1].kwargs["alphaZ"].n = 0
           /\ decomp.call = alignlog[1].call
           /\ ncalls = alignlog[1].call
      ELSE alignlog = <<>> /\ decomp = accepted

(***************************************************************************)
(* Properties of convert_labels_to_segments                                *)
(***************************************************************************)
\* The lines between the leading silence line and the trailing one.
BodyLines(lines, hasTrailing) ==
  SubSeq(lines, 2, IF hasTrailing THEN Len(lines) - 1 ELSE Len(lines))

\* The interval lines are in time order, each starts where the one before it
\* ends, the first starts at frametimes[0] and the last ends at
\* frametimes[-1]; the leading silence line covers [0, frametimes[0]].
IntervalsCover(lines, hasTrailing) ==
  LET body == BodyLines(lines, hasTrailing)
  IN  /\ Len(body) >= 1
      /\ \A n \in 1..Len(body) : body[n].start <= body[n].end
      /\ \A n \in 1..(Len(body) - 1) : body[n + 1].start = body[n].end
      /\ body[1].start = Fmt4(frametimes[1])
      /\ body[Len(body)].end = Fmt4(frametimes[Len(frametimes)])
      /\ lines[1].start = 0
      /\ lines[1].end = Fmt4(frametimes[1])

\* The last line is the trailing silence line, [frametimes[-1], songlen].
TrailingCovers(lines) ==
  /\ Len(lines) >= 3
  /\ lines[Len(lines)].start = Fmt4(frametimes[Len(frametimes)])
  /\ lines[Len(lines)].end = Fmt4(songlen.value)
  /\ lines[Len(lines)].letter = lines[1].letter

\* C4 as stated: for any non-empty label sequence and strictly increasing
\* frame times the text is produced, its intervals cover
\* [frametimes[0], frametimes[-1]] contiguously, and whenever songlen is
\* supplied the trailing silence line covers [frametimes[-1], songlen].
SegmentsCoverAsStated ==
  s_pc # "call" =>
    /\ s_pc = "returned"
    /\ IntervalsCover(segments, songlen.given)
    /\ songlen.given => TrailingCovers(segments)

\* C4 amended: the same for labels below 25 (so that the silence letter, one
\* past the highest label, exists), the trailing silence line being there
\* exactly when songlen is supplied and is not zero.
SegmentsCover ==
  (s_pc # "call" /\ \A n \in 1..Len(s_labels) : s_labels[n] < AlphabetLen - 1) =>
    /\ s_pc = "returned"
    /\ IntervalsCover(segments, PyTruthy(songlen))
    /\ PyTruthy(songlen) => TrailingCovers(segments)
    /\ ~PyTruthy(songlen) => Len(segments) = Len(BoundaryIdx(s_labels))

\* C4 witness: three frames in two segments, times that '%.4f' rounds both
\* ways, and a trailing silence up to the song's length.
SegmentsCoverWitness ==
  /\ s_pc = "returned"
  /\ s_labels = <<0, 24, 24>>
  /\ frametimes = <<1, 2, 5>>
  /\ songlen = [given |-> TRUE, value |-> 7]
  /\ Len(segments) = 4

(***************************************************************************)
(* Properties of nmf_analysis_to_segmentation                              *)
(***************************************************************************)
\* C6: for every T >= 1 and min_segment_length >= 1 (also beyond T) the
\* labels returned are one per input frame, each in [0, len(Z)), and before
\* the merging of short segments a frame's label is the lowest pattern index
\* whose smoothed score at that frame is maximal.
OneLabelPerFrame ==
  n_pc \in {"labelled", "returned"} =>
    /\ Len(n_labels) = n_in.T
    /\ \A n \in 1..Len(n_labels) : n_labels[n] \in 0..(n_in.K - 1)
    /\ Len(n_argmax) = n_in.T
    /\ \A n \in 1..Len(n_argmax) :
         LET smoothed == [k \in 1..n_in.K |->
               ConvolveOnesFull(n_in.score[k], n_in.min_segment_length,
                                n - 1 + (Min2(n_in.T, n_in.min_segment_length) - 1) \div 2)]
         IN  /\ \A k \in 1..n_in.K : smoothed[k] <= smoothed[n_argmax[n] + 1]
             /\ \A k \in 1..n_argmax[n] : smoothed[k] < smoothed[n_argmax[n] + 1]

(***************************************************************************)
(* Properties of nmf_analysis_to_segmentation_using_viterbi_path           *)
(***************************************************************************)
\* The log transition weight the claim names: selfloopprob on the diagonal,
\* (1 - selfloopprob) / (rank - 1) elsewhere.
ClaimedLogWeight(from, to) ==
  IF from = to THEN LogTenths(v_in.selfloop, 100)
  ELSE LogTenths(100 - v_in.selfloop, 100 * (v_in.rank - 1))

\* The total score of the state sequence path (1-based, one state per frame).
RECURSIVE PathScore(_, _)
PathScore(path, n) ==
  IF n = 1 THEN v_in.loglikelihood[path[1]][0]
  ELSE LogPlus(LogPlus(PathScore(path, n - 1),
                       ClaimedLogWeight(path[n - 1], path[n])),
               v_in.loglikelihood[path[n]][n - 1])

\* C8: the state sequence decoded before the merging of short segments has
\* exactly T states, each in [0, rank), and its total score (the first
\* frame's log-likelihood, then for every later frame the log transition
\* weight and the frame's log-likelihood) is the greatest any state sequence
\* of length T has.
ViterbiPathOptimal ==
  v_pc \in {"decoded", "returned"} =>
    /\ Len(v_path) = v_in.T
    /\ \A n \in 1..Len(v_path) : v_path[n] \in States(v_in.rank)
    /\ \A other \in [1..v_in.T -> States(v_in.rank)] :
         PathScore(other, v_in.T) <= PathScore(v_path, v_in.T)

(***************************************************************************)
(* Properties of the command line                                          *)
(***************************************************************************)
\* The invocations the claim calls malformed: fewer than 4 arguments, an odd
\* number of them, a key that does not start with '-', or no -i or no -o.
Malformed(a) ==
  \/ Len(a) < 4
  \/ Len(a) % 2 = 1
  \/ \E k \in 1..(Len(a) \div 2) : ~StartsWithDash(a[2 * k - 1])
  \/ ~\E k \in 1..(Len(a) \div 2) : Lower(a[2 * k - 1]) = "-i"
  \/ ~\E k \in 1..(Len(a) \div 2) : Lower(a[2 * k - 1]) = "-o"

\* C7: every malformed invocation ends with the usage message printed and a
\* non-zero exit status, the output file never opened or written.
MalformedGetsUsage ==
  Malformed(argv) =>
    /\ outfile = "untouched"
    /\ c_pc # "main" =>
         /\ c_pc = "exited"
         /\ status # 0
         /\ stdout # <<>>
         /\ stdout[Len(stdout)] = "usage"

=============================================================================
